---- MODULE Spec2Model ----
(***************************************************************************)
(* State-machine model of FileUploadAreaComponent                          *)
(* (file-upload-area.component.ts, kept as src/unnamed/part_001): a        *)
(* Material form-field control that holds a Set<File>, announces changes   *)
(* on the Subject stateChanges and through the forms callback _onChange.   *)
(*                                                                         *)
(* A page holds up to MaxControls instances.  Set objects live in a heap   *)
(* (sets) and a control's field files is a reference into it, because the  *)
(* value setter stores the caller's Set object itself.                     *)
(***************************************************************************)
EXTENDS Integers, Sequences, FiniteSets, TLC

\* ------------------------------------------------------------------ bounds
MaxControls == 2
NumFiles == 2
MaxPick == 2

Controls == 1..MaxControls
\* A File object of the host; identity is the index.
File(i) == <<"file", i>>
Files == { File(i) : i \in 1..NumFiles }

\* References to Set objects: CallerSet is a Set built by the host outside
\* any control; reference c (c \in Controls) is the Set created by control
\* c's field initialiser `files = new Set()`.
CallerSet == MaxControls + 1
Refs == Controls \cup {CallerSet}

\* The functions a forms directive may hand to registerOnChange.
Callbacks == {"f", "g"}
Undefined == "undefined"

\* --------------------------------------------------------- JavaScript values
\* The values a template or a test may assign to required / disabled, and
\* the origins a FocusMonitor reports ('mouse', 'keyboard', ..., null).
JsString(s) == [t |-> "string", s |-> s]
JsNumber(n) == [t |-> "number", n |-> n]
JsBoolean(b) == [t |-> "boolean", b |-> b]
JsUndefined == [t |-> "undefined"]
JsNull == [t |-> "null"]

InputValues ==
    { JsString("true"), JsString("false"), JsString(""), JsNumber(1), JsNumber(0),
      JsBoolean(TRUE), JsBoolean(FALSE), JsUndefined, JsNull }

FocusOrigins == { JsString("mouse"), JsString("keyboard"), JsNull }

\* `${value}`: the template-literal string conversion.
DigitString(n) == IF n = 0 THEN "0" ELSE "1"
TemplateString(v) ==
    CASE v.t = "string" -> v.s
      [] v.t = "number" -> DigitString(v.n)
      [] v.t = "boolean" -> (IF v.b THEN "true" ELSE "false")
      [] v.t = "undefined" -> "undefined"
      [] v.t = "null" -> "null"

\* !!value: JavaScript truthiness.
Truthy(v) ==
    CASE v.t = "string" -> v.s # ""
      [] v.t = "number" -> v.n # 0
      [] v.t = "boolean" -> v.b
      [] v.t = "undefined" -> FALSE
      [] v.t = "null" -> FALSE

\* @angular/cdk/coercion, imported at line 6 and applied by both setters:
\*   return value != null && `${value}` !== 'false';
coerceBooleanProperty(v) ==
    /\ v.t \notin {"undefined", "null"}
    /\ TemplateString(v) # "false"

\* ------------------------------------------- the native picker's collection
\* nativeElement.files is an object enumerated with for...in (line 181-182).
\* Keys are strings, written here as sequences of characters.
Digits == {"0", "1", "2", "3", "4", "5", "6", "7", "8", "9"}
Whitespace == {" "}
Signs == {"+", "-"}

DigitChar(i) ==
    CASE i = 0 -> "0" [] i = 1 -> "1" [] i = 2 -> "2" [] i = 3 -> "3" [] i = 4 -> "4"
      [] i = 5 -> "5" [] i = 6 -> "6" [] i = 7 -> "7" [] i = 8 -> "8" [] i = 9 -> "9"

IndexKey(i) == <<DigitChar(i)>>
LengthKey == <<"l", "e", "n", "g", "t", "h">>
ItemKey == <<"i", "t", "e", "m">>
OddKey == <<"1", "x">>

RECURSIVE SkipWhitespace(_)
SkipWhitespace(key) ==
    IF key # <<>> /\ Head(key) \in Whitespace THEN SkipWhitespace(Tail(key)) ELSE key

SkipSign(key) == IF key # <<>> /\ Head(key) \in Signs THEN Tail(key) ELSE key

RECURSIVE DigitPrefix(_)
DigitPrefix(key) ==
    IF key # <<>> /\ Head(key) \in Digits
    THEN <<Head(key)>> \o DigitPrefix(Tail(key))
    ELSE <<>>

\* isNaN(parseInt(key, 10)): parseInt skips leading white space and one
\* sign, then reads the longest run of decimal digits and ignores whatever
\* follows; the result is NaN exactly when that run is empty.
ParseIntIsNaN(key) == DigitPrefix(SkipSign(SkipWhitespace(key))) = <<>>

\* A FileList holding the files of seq: the indices, then length and item.
FileList(seq) ==
    [ key \in { IndexKey(i - 1) : i \in 1..Len(seq) } \cup {LengthKey, ItemKey} |->
        IF key = LengthKey THEN <<"number", Len(seq)>>
        ELSE IF key = ItemKey THEN <<"function", 0>>
        ELSE seq[CHOOSE i \in 1..Len(seq) : IndexKey(i - 1) = key] ]

\* A hand-built collection (a test double) may carry any further key.
WithKey(coll, key, entry) ==
    [ k \in DOMAIN coll \cup {key} |-> IF k = key THEN entry ELSE coll[k] ]

\* The picker lists each chosen File object once.
FileSeqs ==
    UNION { { seq \in [1..n -> Files] : \A i, j \in 1..n : i # j => seq[i] # seq[j] } :
            n \in 0..MaxPick }

PickedCollections ==
    { FileList(seq) : seq \in FileSeqs }
    \cup { WithKey(FileList(<<>>), OddKey, f) : f \in Files }

\* The File objects a collection holds, under whatever key.
FilesOf(coll) == { coll[k] : k \in DOMAIN coll } \cap Files

\* setDescribedByIds receives a list of element ids.
IdLists == { <<>>, <<"hint", "error">> }

\* ids.join(' ')
RECURSIVE Join(_)
Join(ids) ==
    IF ids = <<>> THEN ""
    ELSE IF Len(ids) = 1 THEN ids[1]
    ELSE ids[1] \o " " \o Join(Tail(ids))

\* -------------------------------------------------------------------- state
VARIABLES
    nextId,        \* static nextId (line 44)
    life,          \* framework lifecycle of each instance: "unborn", "alive", "destroyed"
    id,            \* id (line 72)
    files,         \* files (line 55): a reference to a Set object
    sets,          \* the Set objects: reference -> members
    stateChanges,  \* stateChanges (line 61): "open" or "stopped" (after complete())
    _onChange,     \* _onChange (line 66)
    _disabled,     \* _disabled (line 79)
    focused,       \* focused (line 80)
    describedBy,   \* describedBy (line 84)
    _required,     \* _required (line 85)
    stopCalls,     \* fm.stopMonitoring(elRef.nativeElement) calls received, per element
    last,          \* what the most recent handler did that its callers can observe
    reference      \* history: the Selection predicted from the picks and removals
                   \* alone, and the Set of the wrapper last assigned (w)

vars == << nextId, life, id, files, sets, stateChanges, _onChange, _disabled, focused,
           describedBy, _required, stopCalls, last, reference >>

IdPrefix == "app-file-upload-area"

\* ValueWrapper (./my-file-list.input): a carrier of one Set reference.
MyFileListInput(filesRef) == [files |-> filesRef]

\* What a handler lets the outside observe: next = calls of
\* stateChanges.next(), delivered = notifications that reached a subscriber,
\* seen = <<>> or <<the members a notified subscriber finds in the control's
\* Set>>, cb = <<>> or <<function invoked, reference of the Set passed, its
\* members at the call>>, threw = the handler ended with an exception.
Observed(op, c, arg, next, delivered, seen, cb, threw) ==
    [op |-> op, c |-> c, arg |-> arg, next |-> next, delivered |-> delivered,
     seen |-> seen, cb |-> cb, threw |-> threw]

Quiet(op, c, arg) == Observed(op, c, arg, 0, 0, <<>>, <<>>, FALSE)

\* Subject.next(): observers are notified unless the subject is stopped.
Delivered(c) == IF stateChanges[c] = "open" THEN 1 ELSE 0

\* What a subscriber notified now finds, the control's Set holding members.
Seen(c, members) == IF Delivered(c) = 1 THEN <<members>> ELSE <<>>

\* this.stateChanges.next() alone (lines 130, 140, 163).
Signalled(op, c, arg) ==
    Observed(op, c, arg, 1, Delivered(c), Seen(c, sets[files[c]]), <<>>, FALSE)

\* this.stateChanges.next(); this._onChange(this.files) (lines 102-103,
\* 187-188, 205-206): calling an undefined _onChange throws a TypeError
\* after the notification went out.  filesRef and members are this.files
\* and its contents when these two statements run.
SignalledAndCalled(op, c, arg, filesRef, members) ==
    IF _onChange[c] = Undefined
    THEN Observed(op, c, arg, 1, Delivered(c), Seen(c, members), <<>>, TRUE)
    ELSE Observed(op, c, arg, 1, Delivered(c), Seen(c, members),
                  <<_onChange[c], filesRef, members>>, FALSE)

Built(c) == life[c] # "unborn"
BuiltControls == { c \in Controls : Built(c) }

Init ==
    /\ nextId = 0
    /\ life = [c \in Controls |-> "unborn"]
    /\ id = [c \in Controls |-> <<>>]
    /\ files = [c \in Controls |-> c]
    /\ sets = [r \in Refs |-> {}]
    /\ stateChanges = [c \in Controls |-> "open"]
    /\ _onChange = [c \in Controls |-> Undefined]
    /\ _disabled = [c \in Controls |-> FALSE]
    /\ focused = [c \in Controls |-> FALSE]
    /\ describedBy = [c \in Controls |-> ""]
    /\ _required = [c \in Controls |-> FALSE]
    /\ stopCalls = [c \in Controls |-> 0]
    /\ last = Quiet("none", 0, <<>>)
    /\ reference = [c \in Controls |-> [pure |-> TRUE, sel |-> {}, w |-> <<>>]]

\* ------------------------------------------------------------------ getters
value(c) == MyFileListInput(files[c])
\* Variant: the comparison `size <= 1`.
emptyAtMostOne(c) == Cardinality(sets[files[c]]) <= 1

empty(c) == Cardinality(sets[files[c]]) < 1

\* Variant: `&&` in place of `||`.
shouldLabelFloatBoth(c) == focused[c] /\ ~empty(c)

shouldLabelFloat(c) == focused[c] \/ ~empty(c)
required(c) == _required[c]
disabled(c) == _disabled[c]

\* --------------------------------------------------------------- operations
\* Variant: the id built from nextId without the increment.
ConstructNoIncrement(c) ==
    /\ life[c] = "unborn"
    /\ life' = [life EXCEPT ![c] = "alive"]
    /\ id' = [id EXCEPT ![c] = <<IdPrefix, nextId>>]
    /\ last' = Quiet("constructor", c, <<>>)
    /\ UNCHANGED << nextId, files, sets, stateChanges, _onChange, _disabled, focused,
                    describedBy, _required, stopCalls, reference >>

\* Field initialisers and constructor of one instance.
Construct(c) ==
    /\ life[c] = "unborn"
    /\ life' = [life EXCEPT ![c] = "alive"]
    /\ id' = [id EXCEPT ![c] = <<IdPrefix, nextId>>]
    /\ nextId' = nextId + 1
    /\ files' = [files EXCEPT ![c] = c]
    /\ sets' = [sets EXCEPT ![c] = {}]
    /\ stateChanges' = [stateChanges EXCEPT ![c] = "open"]
    /\ _onChange' = [_onChange EXCEPT ![c] = Undefined]
    /\ _disabled' = [_disabled EXCEPT ![c] = FALSE]
    /\ focused' = [focused EXCEPT ![c] = FALSE]
    /\ describedBy' = [describedBy EXCEPT ![c] = ""]
    /\ _required' = [_required EXCEPT ![c] = FALSE]
    /\ last' = Quiet("constructor", c, <<>>)
    /\ UNCHANGED << stopCalls, reference >>

\* The host builds `new Set(members)` to wrap and assign; the object is new,
\* so no control refers to it yet.
NewCallerSet(members) ==
    /\ \A c \in Controls : files[c] # CallerSet
    /\ sets[CallerSet] # members
    /\ sets' = [sets EXCEPT ![CallerSet] = members]
    /\ UNCHANGED << nextId, life, id, files, stateChanges, _onChange, _disabled, focused,
                    describedBy, _required, stopCalls, last, reference >>

\* The wrappers a caller can hold: what the value getter of some control
\* returns or returned earlier, or its own Set wrapped.
Wrappers ==
    { value(d) : d \in BuiltControls }
    \cup { MyFileListInput(d) : d \in BuiltControls }
    \cup { MyFileListInput(CallerSet) }

\* A Set reached by an assignment is no longer driven by one control's picks
\* and removals alone; the assigned control remembers the wrapper's Set.
Shared(c, filesRef) ==
    [ d \in Controls |->
        IF d = c THEN [pure |-> FALSE, sel |-> {}, w |-> <<filesRef>>]
        ELSE IF files[d] = filesRef THEN [pure |-> FALSE, sel |-> {}, w |-> reference[d].w]
        ELSE reference[d] ]

\* Variant: `this.files = new Set(val.files)`, a copy kept in the control's
\* own Set.
SetValueCopies(c, val) ==
    /\ Built(c)
    /\ files' = [files EXCEPT ![c] = c]
    /\ sets' = [sets EXCEPT ![c] = sets[val.files]]
    /\ last' = SignalledAndCalled("value", c, val, c, sets[val.files])
    /\ reference' = Shared(c, val.files)
    /\ UNCHANGED << nextId, life, id, stateChanges, _onChange, _disabled, focused,
                    describedBy, _required, stopCalls >>

\* Variant: next() and _onChange(this.files) placed before the assignment.
SetValueNotifiesFirst(c, val) ==
    /\ Built(c)
    /\ files' = [files EXCEPT ![c] = val.files]
    /\ last' = SignalledAndCalled("value", c, val, files[c], sets[files[c]])
    /\ reference' = Shared(c, val.files)
    /\ UNCHANGED << nextId, life, id, sets, stateChanges, _onChange, _disabled, focused,
                    describedBy, _required, stopCalls >>

\* set value(val)
SetValue(c, val) ==
    /\ Built(c)
    /\ files' = [files EXCEPT ![c] = val.files]
    /\ last' = SignalledAndCalled("value", c, val, val.files, sets[val.files])
    /\ reference' = Shared(c, val.files)
    /\ UNCHANGED << nextId, life, id, sets, stateChanges, _onChange, _disabled, focused,
                    describedBy, _required, stopCalls >>

\* Variant: the test `if (parseInt(key, 10))`, which drops index 0.
AddedWhenTruthy(picked) ==
    { picked[key] : key \in { k \in DOMAIN picked : ~ParseIntIsNaN(k) /\ k # IndexKey(0) } }

\* The entries the loop of onFilesAdded passes to Set.add.
Added(picked) == { picked[key] : key \in { k \in DOMAIN picked : ~ParseIntIsNaN(k) } }

Predicted(c, sel) ==
    [reference EXCEPT ![c] = IF @.pure THEN [@ EXCEPT !.sel = sel] ELSE @]

\* onFilesAdded(), with picked = this.fileInputElement.nativeElement.files
OnFilesAdded(c, picked) ==
    /\ Built(c)
    /\ sets' = [sets EXCEPT ![files[c]] = @ \cup Added(picked)]
    /\ last' = SignalledAndCalled("onFilesAdded", c, <<>>, files[c],
                                   sets[files[c]] \cup Added(picked))
    /\ reference' = Predicted(c, reference[c].sel \cup FilesOf(picked))
    /\ UNCHANGED << nextId, life, id, files, stateChanges, _onChange, _disabled, focused,
                    describedBy, _required, stopCalls >>

\* removeFile(file)
RemoveFile(c, file) ==
    /\ Built(c)
    /\ sets' = [sets EXCEPT ![files[c]] = @ \ {file}]
    /\ last' = SignalledAndCalled("removeFile", c, file, files[c], sets[files[c]] \ {file})
    /\ reference' = Predicted(c, reference[c].sel \ {file})
    /\ UNCHANGED << nextId, life, id, files, stateChanges, _onChange, _disabled, focused,
                    describedBy, _required, stopCalls >>

\* Variant: `this._required = !!req`.
SetRequiredTruthy(c, req) ==
    /\ Built(c)
    /\ _required' = [_required EXCEPT ![c] = Truthy(req)]
    /\ last' = Signalled("required", c, req)
    /\ UNCHANGED << nextId, life, id, files, sets, stateChanges, _onChange, _disabled,
                    focused, describedBy, stopCalls, reference >>

\* set required(req)
SetRequired(c, req) ==
    /\ Built(c)
    /\ _required' = [_required EXCEPT ![c] = coerceBooleanProperty(req)]
    /\ last' = Signalled("required", c, req)
    /\ UNCHANGED << nextId, life, id, files, sets, stateChanges, _onChange, _disabled,
                    focused, describedBy, stopCalls, reference >>

\* Variant: the setter signals only when the coerced value differs.
SetDisabledOnlyOnChange(c, dis) ==
    /\ Built(c)
    /\ _disabled' = [_disabled EXCEPT ![c] = coerceBooleanProperty(dis)]
    /\ last' = IF coerceBooleanProperty(dis) = _disabled[c]
               THEN Quiet("disabled", c, dis)
               ELSE Signalled("disabled", c, dis)
    /\ UNCHANGED << nextId, life, id, files, sets, stateChanges, _onChange, _required,
                    focused, describedBy, stopCalls, reference >>

\* set disabled(dis)
SetDisabled(c, dis) ==
    /\ Built(c)
    /\ _disabled' = [_disabled EXCEPT ![c] = coerceBooleanProperty(dis)]
    /\ last' = Signalled("disabled", c, dis)
    /\ UNCHANGED << nextId, life, id, files, sets, stateChanges, _onChange, _required,
                    focused, describedBy, stopCalls, reference >>

\* setDescribedByIds(ids)
SetDescribedByIds(c, ids) ==
    /\ Built(c)
    /\ describedBy' = [describedBy EXCEPT ![c] = Join(ids)]
    /\ last' = Quiet("setDescribedByIds", c, <<>>)
    /\ UNCHANGED << nextId, life, id, files, sets, stateChanges, _onChange, _disabled,
                    focused, _required, stopCalls, reference >>

\* Variant: focused updated without stateChanges.next().
FocusChangeNoSignal(c, origin) ==
    /\ Built(c)
    /\ focused' = [focused EXCEPT ![c] = Truthy(origin)]
    /\ last' = Quiet("focus", c, origin)
    /\ UNCHANGED << nextId, life, id, files, sets, stateChanges, _onChange, _disabled,
                    describedBy, _required, stopCalls, reference >>

\* The subscriber of fm.monitor(...) registered by the constructor.
FocusChange(c, origin) ==
    /\ Built(c)
    /\ focused' = [focused EXCEPT ![c] = Truthy(origin)]
    /\ last' = Signalled("focus", c, origin)
    /\ UNCHANGED << nextId, life, id, files, sets, stateChanges, _onChange, _disabled,
                    describedBy, _required, stopCalls, reference >>

\* Variant: stopMonitoring without stateChanges.complete().
NgOnDestroyNoComplete(c) ==
    /\ life[c] = "alive"
    /\ life' = [life EXCEPT ![c] = "destroyed"]
    /\ stopCalls' = [stopCalls EXCEPT ![c] = @ + 1]
    /\ last' = Quiet("ngOnDestroy", c, <<>>)
    /\ UNCHANGED << nextId, id, files, sets, stateChanges, _onChange, _disabled, focused,
                    describedBy, _required, reference >>

\* ngOnDestroy(): the framework runs it once, on an instance it created.
NgOnDestroy(c) ==
    /\ life[c] = "alive"
    /\ life' = [life EXCEPT ![c] = "destroyed"]
    /\ stateChanges' = [stateChanges EXCEPT ![c] = "stopped"]
    /\ stopCalls' = [stopCalls EXCEPT ![c] = @ + 1]
    /\ last' = Quiet("ngOnDestroy", c, <<>>)
    /\ UNCHANGED << nextId, id, files, sets, _onChange, _disabled, focused, describedBy,
                    _required, reference >>

\* Variant: `this._onChange = this._onChange || fn`, which keeps the first.
RegisterOnChangeOnce(c, fn) ==
    /\ Built(c)
    /\ _onChange' = [_onChange EXCEPT ![c] = IF @ = Undefined THEN fn ELSE @]
    /\ last' = Quiet("registerOnChange", c, fn)
    /\ UNCHANGED << nextId, life, id, files, sets, stateChanges, _disabled, focused,
                    describedBy, _required, stopCalls, reference >>

\* registerOnChange(fn)
RegisterOnChange(c, fn) ==
    /\ Built(c)
    /\ _onChange' = [_onChange EXCEPT ![c] = fn]
    /\ last' = Quiet("registerOnChange", c, fn)
    /\ UNCHANGED << nextId, life, id, files, sets, stateChanges, _disabled, focused,
                    describedBy, _required, stopCalls, reference >>

\* Handlers with an empty body: registerOnTouched, setDisabledState,
\* writeValue, onContainerClick, ngOnInit; and addFiles, which only clicks
\* the hidden input.
NoOp(op, c) ==
    /\ Built(c)
    /\ last' = Quiet(op, c, <<>>)
    /\ UNCHANGED << nextId, life, id, files, sets, stateChanges, _onChange, _disabled,
                    focused, describedBy, _required, stopCalls, reference >>

RegisterOnTouched(c) == NoOp("registerOnTouched", c)

\* Variant: the usual body, `this.disabled = isDisabled`.
SetDisabledStateApplies(c, isDisabled) ==
    /\ Built(c)
    /\ _disabled' = [_disabled EXCEPT ![c] = isDisabled]
    /\ last' = Signalled("setDisabledState", c, <<>>)
    /\ UNCHANGED << nextId, life, id, files, sets, stateChanges, _onChange, _required,
                    focused, describedBy, stopCalls, reference >>

SetDisabledState(c, isDisabled) == NoOp("setDisabledState", c)
WriteValue(c, obj) == NoOp("writeValue", c)
OnContainerClick(c) == NoOp("onContainerClick", c)
NgOnInit(c) == NoOp("ngOnInit", c)
AddFiles(c) == NoOp("addFiles", c)

\* ------------------------------------------------------------ specifications
\* A page holding one instance, driven with every operation and every input.
ConstructOnly(c) ==
    /\ \A d \in Controls : c <= d
    /\ Construct(c)

Next ==
    \/ \E c \in Controls : ConstructOnly(c)
    \/ \E members \in SUBSET Files : NewCallerSet(members)
    \/ \E c \in Controls, val \in Wrappers : SetValue(c, val)
    \/ \E c \in Controls, picked \in PickedCollections : OnFilesAdded(c, picked)
    \/ \E c \in Controls, file \in Files : RemoveFile(c, file)
    \/ \E c \in Controls, req \in InputValues : SetRequired(c, req)
    \/ \E c \in Controls, dis \in InputValues : SetDisabled(c, dis)
    \/ \E c \in Controls, ids \in IdLists : SetDescribedByIds(c, ids)
    \/ \E c \in Controls, origin \in FocusOrigins : FocusChange(c, origin)
    \/ \E c \in Controls : NgOnDestroy(c)
    \/ \E c \in Controls, fn \in Callbacks : RegisterOnChange(c, fn)
    \/ \E c \in Controls : RegisterOnTouched(c)
    \/ \E c \in Controls, isDisabled \in BOOLEAN : SetDisabledState(c, isDisabled)
    \/ \E c \in Controls, obj \in Wrappers : WriteValue(c, obj)
    \/ \E c \in Controls : OnContainerClick(c)
    \/ \E c \in Controls : NgOnInit(c)
    \/ \E c \in Controls : AddFiles(c)

Spec == Init /\ [][Next]_vars

\* A page holding several instances placed outside a form, constructed in
\* any order: ngControl is absent (it is @Optional), so no directive calls
\* registerOnChange.  Every other operation is driven with one
\* representative input, and a control is assigned the value of a control.
OneFile == CHOOSE f \in Files : \A g \in Files : f[2] <= g[2]

NextPage ==
    \/ \E c \in Controls : Construct(c)
    \/ \E c \in Controls, d \in BuiltControls : SetValue(c, value(d))
    \/ \E c \in Controls : OnFilesAdded(c, FileList(<<OneFile>>))
    \/ \E c \in Controls : RemoveFile(c, OneFile)
    \/ \E c \in Controls : SetRequired(c, JsBoolean(FALSE))
    \/ \E c \in Controls : SetDisabled(c, JsBoolean(FALSE))
    \/ \E c \in Controls : SetDescribedByIds(c, <<>>)
    \/ \E c \in Controls : FocusChange(c, JsNull)
    \/ \E c \in Controls : NgOnDestroy(c)
    \/ \E c \in Controls : RegisterOnTouched(c)
    \/ \E c \in Controls : SetDisabledState(c, TRUE)
    \/ \E c \in Controls : WriteValue(c, value(c))
    \/ \E c \in Controls : OnContainerClick(c)
    \/ \E c \in Controls : NgOnInit(c)
    \/ \E c \in Controls : AddFiles(c)

SpecPage == Init /\ [][NextPage]_vars

\* ==================================================================== claims
Selection(c) == sets[files[c]]
Mutating == {"value", "onFilesAdded", "removeFile"}

\* C1: after any sequence of picker selections and removeFile calls on a
\* control that started with its own empty Set, the Selection equals the
\* set computed by union (per selection) and difference (per removal); a
\* file picked twice is held once.
C1_SelectionIsUnionMinusRemovals ==
    \A c \in Controls :
        (Built(c) /\ reference[c].pure) => Selection(c) = reference[c].sel

\* C1 witness: picks followed by a removal left exactly one file.
C1_Witness ==
    /\ last.op = "removeFile"
    /\ reference[last.c].pure
    /\ Cardinality(Selection(last.c)) = 1
    /\ last.arg \notin Selection(last.c)

\* C2 (as claimed): every call of the value setter, onFilesAdded or
\* removeFile, in every reachable state, delivers exactly one state-change
\* notification to subscribers and invokes the change callback exactly once.
C2_OneSignalOneCallback ==
    last.op \in Mutating => (last.delivered = 1 /\ last.cb # <<>> /\ ~last.threw)

\* C3: once ngOnDestroy has run on a control, its stateChanges stream is
\* stopped, no handler running on it (a mutating operation, a setter, a
\* focus event) delivers a notification to a subscriber, and stopMonitoring
\* was called exactly once for its element.
C3_ClosedAfterDestroy ==
    \A c \in Controls :
        life[c] = "destroyed" =>
            /\ stateChanges[c] = "stopped"
            /\ stopCalls[c] = 1
            /\ (last.c = c => last.delivered = 0)

\* C3 witness: a value assignment on a destroyed control called next() and
\* the change callback.
C3_Witness ==
    /\ last.op = "value"
    /\ life[last.c] = "destroyed"
    /\ last.next = 1
    /\ last.cb # <<>>

\* C4 (as claimed): no operation raises an error in any reachable state,
\* also before registerOnChange was called.
C4_NoHandlerThrows == ~last.threw

\* The result coerceBooleanProperty documents: false for undefined, null,
\* false and the string "false", true for everything else.
FalseInputs == { JsUndefined, JsNull, JsBoolean(FALSE), JsString("false") }

\* The getter the setter named by last.op belongs to.
FlagRead == IF last.op = "required" THEN required(last.c) ELSE disabled(last.c)

\* C5 (as claimed): required / disabled read back true after a truthy value
\* was assigned and false after a falsy one ("", 0, undefined).
C5_CoercesByTruthiness ==
    last.op \in {"required", "disabled"} => FlagRead = Truthy(last.arg)

\* C5 (amended): required / disabled read back false after undefined, null,
\* false or the string "false" was assigned, and true after any other value:
\* "true" and 1 give true, and so do the empty string and the number 0.
C5_CoercesByAttributeRule ==
    last.op \in {"required", "disabled"} => FlagRead = (last.arg \notin FalseInputs)

\* C5 witness: the empty string was assigned to required, which reads true.
C5_Witness ==
    /\ last.op = "required"
    /\ last.arg = JsString("")
    /\ required(last.c)

\* C6 (as claimed): after value = w the Selection is w's Set (whatever was
\* held before), the change callback was invoked with that Selection, and
\* empty is false iff w carries a file.
C6_ValueReplacesAndCalls ==
    last.op = "value" =>
        /\ files[last.c] = last.arg.files
        /\ Selection(last.c) = sets[last.arg.files]
        /\ last.cb # <<>>
        /\ last.cb[2] = files[last.c]
        /\ (~empty(last.c)) = (sets[last.arg.files] # {})

\* C7 (as claimed): removeFile(f) removes exactly f when it is present,
\* changes nothing when it is absent, and in both cases signals the state
\* change and invokes the change callback with the resulting Selection.
C7_RemoveExactlyAndNotify ==
    [][ \A c \in Controls, f \in Files :
          RemoveFile(c, f) =>
              /\ Selection(c)' = Selection(c) \ {f}
              /\ (f \notin Selection(c) => sets' = sets)
              /\ last'.next = 1
              /\ last'.cb # <<>>
              /\ sets'[last'.cb[2]] = Selection(c) \ {f} ]_vars

\* C8: empty is true exactly when the Selection has no member.
C8_EmptyIffNoMember ==
    \A c \in Controls : Built(c) => (empty(c) <=> Cardinality(Selection(c)) = 0)

\* C8 witness: a removal took one file of several, and empty reads false.
C8_Witness ==
    /\ last.op = "removeFile"
    /\ last.arg \notin Selection(last.c)
    /\ Cardinality(Selection(last.c)) > 0
    /\ ~empty(last.c)

\* C9: shouldLabelFloat equals (focused or not empty).
C9_FloatIffFocusedOrFilled ==
    \A c \in Controls :
        Built(c) => (shouldLabelFloat(c) <=> (focused[c] \/ Cardinality(Selection(c)) > 0))

\* C9 witness: focused with an empty Selection, reached by removing the last
\* file of a focused control (before the removal it was focused and filled).
C9_Witness ==
    /\ last.op = "removeFile"
    /\ focused[last.c]
    /\ Cardinality(Selection(last.c)) = 0
    /\ shouldLabelFloat(last.c)

\* C10: the counter equals the number of constructions, nothing but a
\* construction changes it, the id suffixes of the controls are pairwise
\* distinct, and a control's suffix is larger than that of every control
\* constructed before it.
Suffix(c) == id[c][2]

C10_CounterCountsConstructions ==
    /\ [](nextId = Cardinality(BuiltControls))
    /\ [](\A c, d \in BuiltControls : c # d => Suffix(c) # Suffix(d))
    /\ [][ /\ \A c \in Controls :
                (~Built(c) /\ Built(c)') =>
                    /\ nextId' = nextId + 1
                    /\ \A d \in BuiltControls : Suffix(c)' > Suffix(d)
           /\ (\A c \in Controls : Built(c)' = Built(c)) => nextId' = nextId ]_vars

\* C10 witness: every control of the page was constructed, one was destroyed
\* since, and a later handler ran.
C10_Witness ==
    /\ BuiltControls = Controls
    /\ \E c \in Controls : life[c] = "destroyed"
    /\ last.op = "removeFile"
    /\ nextId = MaxControls

\* C11: a focus-origin event on a live control sets focused to true for a
\* non-null origin and to false for null, delivers exactly one state-change
\* notification, invokes no change callback, and leaves the Selection,
\* required and disabled as they were.
\* (A step of FocusChange(c, origin) records c and origin in last', so the
\* step is recognised from last' before the action is evaluated.)
C11_FocusEventSetsFocusedAndSignals ==
    [][ LET c == last'.c
            origin == last'.arg
        IN  (last'.op = "focus" /\ FocusChange(c, origin) /\ life[c] = "alive") =>
              /\ focused'[c] = (origin # JsNull)
              /\ last'.next = 1
              /\ last'.delivered = 1
              /\ last'.cb = <<>>
              /\ ~last'.threw
              /\ UNCHANGED << files, sets, _required, _disabled, _onChange >> ]_vars

\* C11 witness: a null origin reached a live, focused-before control that
\* holds files, is required and has a change callback registered.
C11_Witness ==
    /\ last.op = "focus"
    /\ last.arg = JsNull
    /\ life[last.c] = "alive"
    /\ ~focused[last.c]
    /\ last.delivered = 1
    /\ Selection(last.c) # {}
    /\ _required[last.c]
    /\ _onChange[last.c] # Undefined

\* C12: writeValue, setDisabledState and registerOnTouched, with any
\* argument and in any state, leave the Selection, disabled, required,
\* focused and the registered change callback unchanged, and neither signal
\* a state change nor invoke the change callback.
Stub(c) ==
    \/ RegisterOnTouched(c)
    \/ \E isDisabled \in BOOLEAN : SetDisabledState(c, isDisabled)
    \/ \E obj \in Wrappers : WriteValue(c, obj)

StubNames == {"registerOnTouched", "setDisabledState", "writeValue"}

C12_StubsChangeNothing ==
    [][ (last'.op \in StubNames /\ Stub(last'.c)) =>
              /\ UNCHANGED << files, sets, _disabled, _required, focused, _onChange >>
              /\ last'.next = 0
              /\ last'.delivered = 0
              /\ last'.cb = <<>>
              /\ ~last'.threw ]_vars

\* C12 witness: setDisabledState ran on an enabled control that holds files
\* and has a change callback; disabled still reads false.
C12_Witness ==
    /\ last.op = "setDisabledState"
    /\ ~disabled(last.c)
    /\ Selection(last.c) # {}
    /\ _onChange[last.c] # Undefined
    /\ stateChanges[last.c] = "open"

\* A numeric (index-like) key: one or more decimal digits and nothing else.
NumericKey(key) == key # <<>> /\ \A i \in 1..Len(key) : key[i] \in Digits

\* C13 (as claimed): onFilesAdded adds exactly the entries stored under
\* numeric keys of the picker's collection; an entry under length, item or
\* a key that only starts with digits is never added.
C13_AddsExactlyNumericKeys ==
    [][ \A c \in Controls, picked \in PickedCollections :
          OnFilesAdded(c, picked) =>
              Selection(c)' =
                  Selection(c) \cup { picked[k] : k \in { k \in DOMAIN picked : NumericKey(k) } }
      ]_vars

\* C14: registerOnChange(fn) makes fn the stored callback, signals nothing
\* and leaves the Selection alone; no other handler replaces the stored
\* callback; and a callback invoked by the value setter, onFilesAdded or
\* removeFile is the stored one, that is the one passed to the most recent
\* registerOnChange (after f then g, never f).
Registers(c) == \E fn \in Callbacks : RegisterOnChange(c, fn)

C14_LatestCallbackIsInvoked ==
    /\ []((last.op \in Mutating /\ last.cb # <<>>) => last.cb[1] = _onChange[last.c])
    /\ [][ /\ (last'.op = "registerOnChange" /\ RegisterOnChange(last'.c, last'.arg)) =>
                  /\ _onChange'[last'.c] = last'.arg
                  /\ last'.next = 0
                  /\ last'.delivered = 0
                  /\ last'.cb = <<>>
                  /\ UNCHANGED << files, sets >>
            /\ \A c \in Controls :
                  _onChange'[c] # _onChange[c] => Registers(c) ]_vars

\* C14 witness: with g registered (BFS reaches g both directly and after
\* f), a removal invoked g.
C14_Witness ==
    /\ last.op = "removeFile"
    /\ last.cb # <<>>
    /\ last.cb[1] = "g"
    /\ _onChange[last.c] = "g"

\* C15: in the value setter, onFilesAdded and removeFile the Selection is
\* updated first, then the state change is signalled, then the change
\* callback is invoked: a notified subscriber finds the post-mutation
\* Selection, the callback receives the control's Set holding the
\* post-mutation Selection, and when the callback call fails the
\* notification has already gone out.
C15_MutateThenSignalThenCall ==
    last.op \in Mutating =>
        /\ last.next = 1
        /\ (last.delivered = 1 => last.seen = <<Selection(last.c)>>)
        /\ (last.cb # <<>> =>
                (last.cb[2] = files[last.c] /\ last.cb[3] = Selection(last.c)))
        /\ ((last.threw /\ stateChanges[last.c] = "open") =>
                (last.delivered = 1 /\ last.seen = <<Selection(last.c)>>))

\* C15 witness: an assignment replaced the control's own Set by the
\* caller's Set with other members; subscriber and callback both found the
\* new members.
C15_Witness ==
    /\ last.op = "value"
    /\ files[last.c] = CallerSet
    /\ sets[CallerSet] # {}
    /\ sets[last.c] # sets[CallerSet]
    /\ last.delivered = 1
    /\ last.seen = <<sets[CallerSet]>>
    /\ last.cb # <<>>
    /\ last.cb[3] = sets[CallerSet]

\* C16: the value setter keeps the caller's Set itself: from value = w on,
\* whatever onFilesAdded and removeFile do to the control, the members read
\* through w are the control's Selection, and two controls last assigned
\* the same w have equal Selections.
Assigned(c) == reference[c].w

C16_SelectionIsTheCallersSet ==
    /\ \A c \in BuiltControls :
           Assigned(c) # <<>> => Selection(c) = sets[Assigned(c)[1]]
    /\ \A c, d \in BuiltControls :
           (Assigned(c) # <<>> /\ Assigned(c) = Assigned(d)) => Selection(c) = Selection(d)

\* C16 witness: two controls were assigned the same wrapper, then one of
\* them picked a file, which the other holds too.
C16_Witness ==
    /\ last.op = "onFilesAdded"
    /\ \E d \in BuiltControls :
           /\ d # last.c
           /\ Assigned(d) # <<>>
           /\ Assigned(d) = Assigned(last.c)
           /\ Selection(d) = {OneFile}

\* C17: each assignment to required or disabled before ngOnDestroy emits
\* exactly one state-change signal, also when the coerced value equals the
\* previous one, never invokes the change callback, and leaves the
\* Selection, focused and the other of the two flags unchanged.
OneSignalNoCallback ==
    /\ last'.next = 1
    /\ last'.delivered = 1
    /\ last'.cb = <<>>
    /\ ~last'.threw

\* (A step of either setter records the control and the input in last', so
\* the step is recognised from last' before the action is evaluated.)
C17_FlagSettersSignalOnceAndFrame ==
    [][ last'.op \in {"required", "disabled"} =>
        \A c \in Controls, v \in InputValues :
          (last'.c = c /\ last'.arg = v) =>
            /\ (last'.op = "required" /\ SetRequired(c, v) /\ life[c] = "alive") =>
                 /\ OneSignalNoCallback
                 /\ Selection(c)' = Selection(c)
                 /\ focused'[c] = focused[c]
                 /\ _disabled'[c] = _disabled[c]
            /\ (last'.op = "disabled" /\ SetDisabled(c, v) /\ life[c] = "alive") =>
                 /\ OneSignalNoCallback
                 /\ Selection(c)' = Selection(c)
                 /\ focused'[c] = focused[c]
                 /\ _required'[c] = _required[c] ]_vars

\* C17 witness: a focused, required control holding a file and a registered
\* callback was assigned disabled = false while already enabled, and the
\* signal was delivered.
C17_Witness ==
    /\ last.op = "disabled"
    /\ last.arg = JsBoolean(FALSE)
    /\ life[last.c] = "alive"
    /\ last.delivered = 1
    /\ ~_disabled[last.c]
    /\ _required[last.c]
    /\ focused[last.c]
    /\ Selection(last.c) # {}
    /\ _onChange[last.c] # Undefined

====
